---- MODULE Spec2Model ----
(***************************************************************************)
(* Model of the realtime connection manager of the live-streaming client   *)
(* (src/src/hooks/useSocket.js, the useSocket hook).                       *)
(*                                                                         *)
(* React semantics that the model keeps:                                   *)
(*  - `connected`, `error`, `reconnectAttempts` are component state; a     *)
(*    setState call takes effect for the NEXT render only.                 *)
(*  - `connect` is a useCallback closure over `reconnectAttempts`; every   *)
(*    socket handler and every retry-timer callback created inside one     *)
(*    call of connect keeps the reconnectAttempts value and the `connect`  *)
(*    function of the render that created that closure.                    *)
(*  - `socketRef` and `reconnectTimeoutRef` are refs: read and written     *)
(*    immediately.                                                         *)
(*  - the credential is read from storage by getToken() when it is         *)
(*    needed; changing the stored credential triggers no render.           *)
(*                                                                         *)
(* Transport: each socket created by io() answers its open with one        *)
(* `connect` or one `connect_error`; an open socket may then be closed by  *)
(* the server, by the network, or by the client (socket.disconnect(),      *)
(* which synchronously emits `disconnect` with reason                      *)
(* "io client disconnect" when the socket is connected).  The transport    *)
(* library's own reconnection is left out: a socket that failed or was     *)
(* closed delivers no further event.                                       *)
(*                                                                         *)
(* Scheduling: every handler runs to completion; the render that follows   *)
(* a state change is a step of its own (Render) and may come after later   *)
(* events.                                                                 *)
(*                                                                         *)
(* ChatContainer (src/components/chat/ChatContainer.jsx) is modelled on    *)
(* its own (SpecChat).  Its useSocket() instance is seen through the two   *)
(* values it returns, socket and connected, which may change at any        *)
(* render.  State changed by a click handler (toggleBlockUser) is rendered *)
(* and its effects are run before the next event is delivered, so the      *)
(* socket handlers then hold the callbacks of that render.                 *)
(***************************************************************************)
EXTENDS Integers, FiniteSets, Sequences, Bags, TLC

\* ------------------------------------------------------------------ bounds
MaxSockets == 2        \* socket objects alive at one time
MaxTimers  == 2        \* retry timers pending at one time
MaxCount   == 6        \* cap on the reconnectAttempts counter
MaxCalls   == 2        \* calls made by users of the hook and credential changes
MaxArrivals == 3       \* chat:new-message events delivered to a ChatContainer
MaxContent  == 2       \* length of the text passed to sendMessage
maxMessages == 2       \* the maxMessages prop of ChatContainer (500 by default)
MaxViewers  == 2       \* largest viewer count the server reports
MaxDeltas   == 4       \* viewer:joined / viewer:left events handled
MaxStreams  == 2       \* entries of the live-stream list

\* ------------------------------------------------------- program constants
maxReconnectAttempts == 5
reconnectDelay       == 1000

\* ChatContainer: the cooldown sendMessage sets, and the cooldown of a
\* chat:slow-mode-toggle event that carries no duration
slowModeCooldown        == 30
defaultSlowModeDuration == 30

ServerDisconnect == "io server disconnect"
ClientDisconnect == "io client disconnect"
TransportClose   == "transport close"

\* error state values: null, err.message of a connect_error,
\* 'Authentication failed', `Rate limited: ...`
NoError        == "null"
TransportError == "transport error"
AuthFailed     == "Authentication failed"
RateLimited    == "Rate limited"

VARIABLES
    mounted,            \* the component using the hook is mounted
    token,              \* a credential is stored (getToken() is truthy)
    connected,          \* React state `connected`
    error,              \* React state `error`
    reconnectAttempts,  \* React state `reconnectAttempts`
    connectRA,          \* reconnectAttempts captured by the rendered `connect`
    depConnected,       \* `connected` as of the last render (effect deps)
    socketRef,          \* the socket object in socketRef.current (status "none" = null)
    sockets,            \* bag of the other socket objects that are still alive
    timeoutRef,         \* the timer whose handle is in reconnectTimeoutRef.current
    timers,             \* bag of the other retry timers that are still pending
    last,               \* history: last operation, delay it scheduled, transport it opened
    failuresOnly,       \* history: so far every transport open was answered by connect_error
    srvClosed,          \* history: server closed the session, no explicit connect() since
    calls,              \* number of user calls and credential changes so far
    owed,               \* history: credential became present while Disconnected, nothing opened since
    subscribed,         \* history: rooms whose join-room request went out at some time, no leaveRoom since
    joinSent,           \* history: rooms whose join-room request went out since the latest connect event
    deferred,           \* history: rooms whose latest joinRoom was called while not connected, no leaveRoom since
    chatMessages,       \* ChatContainer state `chatMessages`: sequence of [id, userId, ts]
    blockedUsers,       \* ChatContainer state `blockedUsers`
    isAtBottom,         \* ChatContainer state `isAtBottom`
    unreadCount,        \* ChatContainer state `unreadCount`
    slowModeTimer,      \* ChatContainer state `slowModeTimer`
    canSendMessage,     \* ChatContainer state `canSendMessage`
    slowModeInterval,   \* an interval started by sendMessage is running (slowModeIntervalRef)
    isSlowMode,         \* ChatContainer prop `isSlowMode`
    disabled,           \* ChatContainer prop `disabled`
    chatSocket,         \* `socket` returned by the ChatContainer's useSocket() is not null
    chatConnected,      \* `connected` returned by the ChatContainer's useSocket()
    arrivals,           \* number of chat:new-message events delivered so far
    addIsAtBottom,      \* `isAtBottom` captured by the addMessage the socket handler calls
    toggleCanSend,      \* `canSendMessage` captured by the registered handleSlowModeToggle
    authUser,           \* the AuthContext holds a logged-in user
    chatLast,           \* history: last ChatContainer operation, its argument and outcome
    \* --- viewer counts (StreamView, Broadcast, StreamingProvider)
    viewCount,          \* StreamView: `viewCount` state of the watched stream
    viewerCount,        \* Broadcast: `viewerCount` state
    liveStreams,        \* StreamingProvider: the listed streams, each with id and viewerCount
    expected,           \* history: last count loaded or pushed for the watched stream, adjusted by the later joins and leaves
    netDelta,           \* history: viewer:joined minus viewer:left events StreamView handled
    viewerEvents,       \* history: number of viewer:joined / viewer:left events handled
    viewLast,           \* history: last viewer-count operation
    \* --- teardown
    unmounted,          \* the component using the hook was unmounted
    \* --- the page that renders the ChatContainer
    parentMessages,     \* StreamView: `chatMessages` state, passed as the `messages` prop
    removed             \* history: ids of the messages delete, user-banned or block took out of the list

vars == <<mounted, token, connected, error, reconnectAttempts, connectRA,
          depConnected, socketRef, sockets, timeoutRef, timers,
          last, failuresOnly, srvClosed, calls, owed,
          subscribed, joinSent, deferred,
          chatMessages, blockedUsers, isAtBottom, unreadCount, slowModeTimer,
          canSendMessage, slowModeInterval, isSlowMode, disabled, chatSocket,
          chatConnected, arrivals, addIsAtBottom, toggleCanSend, authUser,
          chatLast,
          viewCount, viewerCount, liveStreams, expected, netDelta,
          viewerEvents, viewLast, unmounted, parentMessages, removed>>

roomVars == <<subscribed, joinSent, deferred>>

\* the viewer counts of the pages
viewerVars == <<viewCount, viewerCount, liveStreams, expected, netDelta,
                viewerEvents, viewLast>>

\* what neither a useSocket action nor a ChatContainer action changes
outerVars == <<viewerVars, unmounted, parentMessages>>

\* the useSocket hook and its rooms
socketVars == <<mounted, token, connected, error, reconnectAttempts, connectRA,
                depConnected, socketRef, sockets, timeoutRef, timers,
                last, failuresOnly, srvClosed, calls, owed,
                subscribed, joinSent, deferred>>

\* everything outside the ChatContainer
hookVars == <<socketVars, outerVars>>

\* the message list of a ChatContainer, its block list and its scroll state
storeVars == <<chatMessages, blockedUsers, isAtBottom, unreadCount, arrivals,
               addIsAtBottom, removed>>

\* the slow-mode gate of a ChatContainer and what sendMessage reads
gateVars == <<slowModeTimer, canSendMessage, slowModeInterval, isSlowMode,
              disabled, toggleCanSend, authUser>>

chatVars == <<chatMessages, blockedUsers, isAtBottom, unreadCount,
              slowModeTimer, canSendMessage, slowModeInterval, isSlowMode,
              disabled, chatSocket, chatConnected, arrivals, addIsAtBottom,
              toggleCanSend, authUser, chatLast, removed, outerVars>>

\* room identifiers passed to joinRoom and leaveRoom
Rooms == {"s1", "s2"}

\* A socket object: its transport status ("opening", "open", "closed") and
\* the reconnectAttempts value its handlers closed over.
NoSocket == [status |-> "none", ra |-> 0]

\* a closed socket delivers no event: the closure of its handlers is dead
ClosedSocket == [status |-> "closed", ra |-> 0]

\* A timer handle: "pending", or "done" once it fired or was cleared; a
\* pending timer carries the reconnectAttempts value of the connect closure
\* its callback calls.
NoTimer   == [state |-> "null", ra |-> 0]
DoneTimer == [state |-> "done", ra |-> 0]

\* ----------------------------------------------------------------- helpers

Single(x) == SetToBag({x})

Pow2(n) == 2 ^ n

\* delay = reconnectDelay * Math.pow(2, reconnectAttempts)
BackoffDelay(ra) == reconnectDelay * Pow2(ra)

\* if (reconnectAttempts < maxReconnectAttempts)
MayRetry(ra) == ra < maxReconnectAttempts

\* mutant: the reason is compared with a string the transport never reports
IsServerInitiated_Misspelt(reason) == reason = "server disconnect"

\* if (reason === 'io server disconnect') ... else retry
IsServerInitiated(reason) == reason = ServerDisconnect

Live(sock) == sock.status \in {"opening", "open"}

\* a socket object that socketRef stops referencing stays alive at the
\* transport unless it was closed
Detach(ref, socks) == IF Live(ref) THEN socks (+) Single(ref) ELSE socks

\* a timer whose handle is overwritten stays pending
KeepTimer(tref, tm) ==
    IF tref.state = "pending" THEN tm (+) Single(tref.ra) ELSE tm

SocketCount(ref, socks) == BagCardinality(socks) + (IF Live(ref) THEN 1 ELSE 0)

TimerCount(tref, tm) ==
    BagCardinality(tm) + (IF tref.state = "pending" THEN 1 ELSE 0)

\* the sockets that can deliver an event, and where each is held
Targets ==
    (IF Live(socketRef) THEN {[at |-> "ref", sock |-> socketRef]} ELSE {})
    \cup {[at |-> "other", sock |-> o] : o \in BagToSet(sockets)}

\* the timers that can fire
PendingTimers ==
    (IF timeoutRef.state = "pending"
        THEN {[at |-> "ref", ra |-> timeoutRef.ra]} ELSE {})
    \cup {[at |-> "other", ra |-> r] : r \in BagToSet(timers)}

\* socket s is closed at the transport
CloseSocket(s, ref, socks) ==
    IF s.at = "ref"
    THEN [ref |-> ClosedSocket, socks |-> socks]
    ELSE [ref |-> ref, socks |-> socks (-) Single(s.sock)]

\* const newSocket = io(SOCKET_URL, {...}) with handlers closing over ra
NewSocket(ra) == [status |-> "opening", ra |-> ra]

\* connect(), as the closure that captured reconnectAttempts = ra.
\* Result: socketRef.current, the other sockets, and whether io() was called.
ConnectCall(ra, ref, socks) ==
    IF ref.status = "open"
    THEN [ref |-> ref, socks |-> socks, opened |-> FALSE]
    ELSE [ref |-> NewSocket(ra), socks |-> Detach(ref, socks), opened |-> TRUE]

ConnectEnabled(ref, socks) ==
    ref.status = "open" \/ SocketCount(ref, socks) < MaxSockets

\* reconnectTimeoutRef.current = setTimeout(() => {...; connect()}, delay)
Schedule(ra, tref, tm) ==
    [tref |-> [state |-> "pending", ra |-> ra], tm |-> KeepTimer(tref, tm)]

\* if (reconnectTimeoutRef.current) clearTimeout(reconnectTimeoutRef.current)
ClearTimeout(tref) == IF tref.state = "pending" THEN DoneTimer ELSE tref

\* The retry branch shared by the connect_error and disconnect handlers of a
\* socket whose closure captured reconnectAttempts = ra.
\* Result: reconnectTimeoutRef.current, the other timers, the delay
\* scheduled (0 = none).
RetryPolicy(ra, tref, tm) ==
    IF MayRetry(ra)
    THEN LET r == Schedule(ra, tref, tm)
         IN  [tref |-> r.tref, tm |-> r.tm, delay |-> BackoffDelay(ra)]
    ELSE [tref |-> tref, tm |-> tm, delay |-> 0]

RetryEnabled(ra, tref, tm) == MayRetry(ra) => TimerCount(tref, tm) < MaxTimers

\* newSocket.on('disconnect', (reason) => {...}) apart from
\* setConnected(false), run when the socket is already closed.
DisconnectHandler(ra, reason, ref, socks, tref, tm) ==
    IF IsServerInitiated(reason)
    THEN [ref |-> NoSocket, socks |-> Detach(ref, socks),
          tref |-> tref, tm |-> tm, delay |-> 0]
    ELSE LET r == RetryPolicy(ra, tref, tm)
         IN  [ref |-> ref, socks |-> socks,
              tref |-> r.tref, tm |-> r.tm, delay |-> r.delay]

DisconnectHandlerEnabled(ra, reason, tref, tm) ==
    IsServerInitiated(reason) \/ RetryEnabled(ra, tref, tm)

\* disconnect(): refs, sockets and timers after the call; the state setters
\* are applied by the caller.  socket.disconnect() on a connected socket runs
\* that socket's disconnect handler with reason "io client disconnect".
DisconnectCall(ref, socks, tref, tm) ==
    LET t1 == ClearTimeout(tref)
    IN  IF ref.status = "open"
        THEN LET c == CloseSocket([at |-> "ref", sock |-> ref], ref, socks)
                 h == DisconnectHandler(ref.ra, ClientDisconnect,
                                        c.ref, c.socks, t1, tm)
             IN  [ref |-> NoSocket, socks |-> h.socks,
                  tref |-> h.tref, tm |-> h.tm, delay |-> h.delay]
        ELSE [ref |-> NoSocket, socks |-> socks,
              tref |-> t1, tm |-> tm, delay |-> 0]

DisconnectCallEnabled(ref, tref, tm) ==
    ref.status = "open"
        => DisconnectHandlerEnabled(ref.ra, ClientDisconnect,
                                    ClearTimeout(tref), tm)

\* emit(event, data) of a render whose `connected` was rc:
\*   if (!socketRef.current || !connected) return false;
\*   socketRef.current.emit(event, data); return true;
\* socket.emit does not throw on a socket that is not connected: the packet
\* is buffered in that socket object and leaves only when it is connected.
\* Result: the value returned, and whether the packet left on a connected
\* transport.
EmitCall(ref, rc) ==
    LET sent == ref.status # "none" /\ rc
    IN  [ok |-> sent, wire |-> sent /\ ref.status = "open"]

\* mutant: the connect handler without setReconnectAttempts(0)
ConnectedState_KeepAttempts ==
    [connected |-> TRUE, error |-> NoError, attempts |-> reconnectAttempts]

\* values of the React state after the setters of the connect handler
ConnectedState == [connected |-> TRUE, error |-> NoError, attempts |-> 0]

\* values of the React state after the setters of disconnect()
DisconnectedState == [connected |-> FALSE, error |-> NoError, attempts |-> 0]

\* no render is pending: the rendered closures are those of the current state
RenderIdle == connectRA = reconnectAttempts /\ depConnected = connected

NoPendingTimer == TimerCount(timeoutRef, timers) = 0

NoLiveSocket == SocketCount(socketRef, sockets) = 0

Op(name, delay, opened) ==
    [op |-> name, delay |-> delay, opened |-> opened,
     ok |-> FALSE, wire |-> FALSE, room |-> "none"]

\* record of a call of emit, joinRoom or leaveRoom: the value it returned,
\* whether its packet left on a connected transport, and the room it named
EmitOp(name, res, room) ==
    [op |-> name, delay |-> 0, opened |-> FALSE,
     ok |-> res.ok, wire |-> res.wire, room |-> room]

Hist(name, delay, opened, fo, sc, ow) ==
    /\ last' = Op(name, delay, opened)
    /\ failuresOnly' = fo
    /\ srvClosed' = sc
    /\ owed' = (ow /\ ~opened)

\* nothing is connected, connecting or scheduled
Disconnected == ~connected /\ NoLiveSocket /\ NoPendingTimer

\* ------------------------------------------------------- ChatContainer

\* userId values of chat messages
Users == {"u1", "u2"}

\* timestamp values carried by chat messages
Timestamps == {1, 2}

\* characters of a message text: a blank and a letter
Chars == {" ", "a"}

\* message types passed to sendMessage
Types == {"text", "emote"}

\* duration values of a chat:slow-mode-toggle event (0 = field absent)
Durations == {0, 2}

\* const { user } = useAuthActions(): useAuthActions returns
\* { login, logout, register, loading, error }, so user is undefined
user == FALSE

NoMsg == [id |-> 0, userId |-> "none", ts |-> 0]

NoPayload == [content |-> <<>>, type |-> "none"]

RECURSIVE TrimStart(_)
\* leading blanks removed
TrimStart(str) ==
    IF str # <<>> /\ Head(str) = " " THEN TrimStart(Tail(str)) ELSE str

RECURSIVE TrimEnd(_)
\* trailing blanks removed
TrimEnd(str) ==
    IF str # <<>> /\ str[Len(str)] = " "
    THEN TrimEnd(SubSeq(str, 1, Len(str) - 1))
    ELSE str

\* content.trim()
Trim(str) == TrimEnd(TrimStart(str))

\* array.slice(-n): the last n elements; slice(-0) is slice(0), the whole array
SliceLast(arr, n) ==
    IF n = 0 \/ Len(arr) <= n THEN arr
    ELSE SubSeq(arr, Len(arr) - n + 1, Len(arr))

\* mutant: addMessage that trims with slice(0, maxMessages)
AddMessageUpdate_KeepOldest(prev, newMessage, blocked) ==
    IF newMessage.userId \in blocked THEN prev
    ELSE LET updated == Append(prev, newMessage)
         IN  IF Len(updated) > maxMessages
             THEN SubSeq(updated, 1, maxMessages)
             ELSE updated

\* mutant: addMessage without the blockedUsers test
AddMessageUpdate_NoBlockTest(prev, newMessage, blocked) ==
    LET updated == Append(prev, newMessage)
    IN  IF Len(updated) > maxMessages
        THEN SliceLast(updated, maxMessages)
        ELSE updated

\* the updater addMessage passes to setChatMessages, with the blockedUsers
\* captured by addMessage
AddMessageUpdate(prev, newMessage, blocked) ==
    IF newMessage.userId \in blocked THEN prev
    ELSE LET updated == Append(prev, newMessage)
         IN  IF Len(updated) > maxMessages
             THEN SliceLast(updated, maxMessages)
             ELSE updated

\* the updater toggleBlockUser passes to setBlockedUsers
ToggleSet(prev, userId) ==
    IF userId \in prev THEN prev \ {userId} ELSE prev \cup {userId}

\* prev.filter(msg => !blocked.has(msg.userId))
WithoutUsers(msgs, blocked) == SelectSeq(msgs, LAMBDA m : m.userId \notin blocked)

\* mutant: sendMessage without its first guard
SendRejected_NoGuard(sock, conn, usr, canSend, dis) == FALSE

\* if (!socket || !connected || !user || !canSendMessage || disabled) return false;
SendRejected(sock, conn, usr, canSend, dis) ==
    ~sock \/ ~conn \/ ~usr \/ ~canSend \/ dis

\* texts passed to sendMessage
Contents == UNION {[1..n -> Chars] : n \in 0..MaxContent}

ChatOp(name, msg, who, ok, emitted) ==
    [op |-> name, msg |-> msg, user |-> who, ok |-> ok, emitted |-> emitted,
     blank |-> FALSE]

\* record of a sendMessage call: whether its text was empty after trimming,
\* the value returned and the payload emitted
SendOp(content, ok, emitted) ==
    [ChatOp("send", NoMsg, "none", ok, emitted)
        EXCEPT !.blank = (Trim(content) = <<>>)]

\* ChatContainer after its first render, with the given props
ChatInit(slow, dis) ==
    /\ addIsAtBottom = TRUE
    /\ toggleCanSend = TRUE
    /\ chatMessages = <<>>
    /\ blockedUsers = {}
    /\ isAtBottom = TRUE
    /\ unreadCount = 0
    /\ slowModeTimer = 0
    /\ canSendMessage = TRUE
    /\ slowModeInterval = FALSE
    /\ isSlowMode = slow
    /\ disabled = dis
    /\ chatSocket = FALSE
    /\ chatConnected = FALSE
    /\ arrivals = 0
    /\ removed = {}
    /\ chatLast = ChatOp("init", NoMsg, "none", FALSE, NoPayload)

\* ------------------------------------------------------- viewer counts

\* viewer counts the server reports (response.data.viewCount,
\* data.viewerCount)
Counts == 0..MaxViewers

\* the stream the StreamView page shows
Watched == "s1"

NoStreams == <<>>

Max(a, b) == IF a >= b THEN a ELSE b

\* setViewCount(prev => prev + 1)
ViewerJoinedUpdate(prev) == prev + 1

ViewerLeftUpdate_NoClamp(prev) == prev - 1

\* setViewCount(prev => Math.max(0, prev - 1))
ViewerLeftUpdate(prev) == Max(0, prev - 1)

\* streamingReducer, UPDATE_STREAM: liveStreams.map(stream =>
\*   stream.id === action.payload.id ? { ...stream, ...action.payload } : stream)
UpdateStream(streams, id, n) ==
    [i \in DOMAIN streams |->
        IF streams[i].id = id THEN [streams[i] EXCEPT !.viewerCount = n]
        ELSE streams[i]]

\* streamingReducer, ADD_STREAM: liveStreams: [action.payload, ...state.liveStreams]
AddStream(streams, id, n) ==
    <<[id |-> id, viewerCount |-> n]>> \o streams

\* streamingReducer, REMOVE_STREAM:
\*   liveStreams.filter(stream => stream.id !== action.payload)
RemoveStream(streams, id) ==
    SelectSeq(streams, LAMBDA st : st.id # id)

ViewOp(name, stream, n) == [op |-> name, stream |-> stream, n |-> n]

ViewerInit ==
    /\ viewCount = 0
    /\ viewerCount = 0
    /\ liveStreams = NoStreams
    /\ expected = 0
    /\ netDelta = 0
    /\ viewerEvents = 0
    /\ viewLast = ViewOp("init", "none", 0)

OuterInit ==
    /\ ViewerInit
    /\ unmounted = FALSE
    /\ parentMessages = <<>>

\* -------------------------------------------------------------------- Init

Init ==
    /\ mounted = FALSE
    /\ token \in BOOLEAN
    /\ connected = FALSE
    /\ error = NoError
    /\ reconnectAttempts = 0
    /\ connectRA = 0
    /\ depConnected = FALSE
    /\ socketRef = NoSocket
    /\ sockets = EmptyBag
    /\ timeoutRef = NoTimer
    /\ timers = EmptyBag
    /\ last = Op("init", 0, FALSE)
    /\ failuresOnly = TRUE
    /\ srvClosed = FALSE
    /\ owed = FALSE
    /\ calls = 0
    /\ subscribed = {}
    /\ joinSent = {}
    /\ deferred = {}
    /\ ChatInit(FALSE, FALSE)
    /\ authUser = FALSE
    /\ OuterInit

\* ----------------------------------------------------------------- actions

\* First render: the mount effect (connect if a credential is stored) and
\* then the credential effect, which finds socketRef.current already set
\* when the mount effect connected and null when there is no credential.
Mount ==
    /\ UNCHANGED roomVars
    /\ UNCHANGED chatVars
    /\ ~mounted /\ ~unmounted
    /\ mounted' = TRUE
    /\ LET c == IF token THEN ConnectCall(connectRA, socketRef, sockets)
                ELSE [ref |-> socketRef, socks |-> sockets, opened |-> FALSE]
       IN  /\ socketRef' = c.ref
           /\ sockets' = c.socks
           /\ Hist("mount", 0, c.opened, failuresOnly, srvClosed, owed)
    /\ UNCHANGED <<token, connected, error, reconnectAttempts, connectRA,
                   depConnected, timeoutRef, timers, calls>>

\* newSocket.on('connect', ...): the setters, then socketRef.current = newSocket
OnConnect(s) ==
    /\ joinSent' = {}
    /\ UNCHANGED <<subscribed, deferred>>
    /\ UNCHANGED chatVars
    /\ s.sock.status = "opening"
    /\ connected' = ConnectedState.connected
    /\ error' = ConnectedState.error
    /\ reconnectAttempts' = ConnectedState.attempts
    /\ socketRef' = [s.sock EXCEPT !.status = "open"]
    /\ sockets' = IF s.at = "ref" THEN sockets
                  ELSE Detach(socketRef, sockets (-) Single(s.sock))
    /\ Hist("connect", 0, FALSE, FALSE, srvClosed, owed)
    /\ UNCHANGED <<mounted, token, connectRA, depConnected, timeoutRef,
                   timers, calls>>

\* newSocket.on('connect_error', ...)
OnConnectError(s) ==
    /\ UNCHANGED roomVars
    /\ UNCHANGED chatVars
    /\ s.sock.status = "opening"
    /\ RetryEnabled(s.sock.ra, timeoutRef, timers)
    /\ error' = TransportError
    /\ connected' = FALSE
    /\ LET c == CloseSocket(s, socketRef, sockets)
           r == RetryPolicy(s.sock.ra, timeoutRef, timers)
       IN  /\ socketRef' = c.ref
           /\ sockets' = c.socks
           /\ timeoutRef' = r.tref
           /\ timers' = r.tm
           /\ Hist("connect_error", r.delay, FALSE, failuresOnly, srvClosed, owed)
    /\ UNCHANGED <<mounted, token, reconnectAttempts, connectRA, depConnected,
                   calls>>

\* newSocket.on('disconnect', (reason) => ...), reason reported by the
\* transport: the server closed the session, or the network dropped
OnDisconnect(s, reason) ==
    /\ UNCHANGED roomVars
    /\ UNCHANGED chatVars
    /\ s.sock.status = "open"
    /\ DisconnectHandlerEnabled(s.sock.ra, reason, timeoutRef, timers)
    /\ connected' = FALSE
    /\ LET c == CloseSocket(s, socketRef, sockets)
           h == DisconnectHandler(s.sock.ra, reason, c.ref, c.socks,
                                  timeoutRef, timers)
       IN  /\ socketRef' = h.ref
           /\ sockets' = h.socks
           /\ timeoutRef' = h.tref
           /\ timers' = h.tm
           /\ Hist(IF reason = ServerDisconnect THEN "disconnect_server"
                                                ELSE "disconnect_network",
                   h.delay, FALSE, FALSE,
                   IF reason = ServerDisconnect THEN TRUE ELSE srvClosed, owed)
    /\ UNCHANGED <<mounted, token, error, reconnectAttempts, connectRA,
                   depConnected, calls>>

\* newSocket.on('auth_error', ...): setError, then newSocket.disconnect(),
\* which runs the disconnect handler of the connected socket
OnAuthError(s) ==
    /\ UNCHANGED roomVars
    /\ UNCHANGED chatVars
    /\ s.sock.status = "open"
    /\ DisconnectHandlerEnabled(s.sock.ra, ClientDisconnect, timeoutRef, timers)
    /\ error' = AuthFailed
    /\ connected' = FALSE
    /\ LET c == CloseSocket(s, socketRef, sockets)
           h == DisconnectHandler(s.sock.ra, ClientDisconnect, c.ref, c.socks,
                                  timeoutRef, timers)
       IN  /\ socketRef' = h.ref
           /\ sockets' = h.socks
           /\ timeoutRef' = h.tref
           /\ timers' = h.tm
           /\ Hist("auth_error", h.delay, FALSE, FALSE, srvClosed, owed)
    /\ UNCHANGED <<mounted, token, reconnectAttempts, connectRA, depConnected,
                   calls>>

\* mutant: a rate_limit handler that also marks the connection as lost
OnRateLimit_Disconnects(s) ==
    /\ UNCHANGED roomVars
    /\ UNCHANGED chatVars
    /\ s.sock.status = "open"
    /\ error' = RateLimited
    /\ connected' = FALSE
    /\ Hist("rate_limit", 0, FALSE, FALSE, srvClosed, owed)
    /\ UNCHANGED <<mounted, token, reconnectAttempts, connectRA,
                   depConnected, socketRef, sockets, timeoutRef, timers, calls>>

\* newSocket.on('rate_limit', ...)
OnRateLimit(s) ==
    /\ UNCHANGED roomVars
    /\ UNCHANGED chatVars
    /\ s.sock.status = "open"
    /\ error' = RateLimited
    /\ Hist("rate_limit", 0, FALSE, FALSE, srvClosed, owed)
    /\ UNCHANGED <<mounted, token, connected, reconnectAttempts, connectRA,
                   depConnected, socketRef, sockets, timeoutRef, timers, calls>>

\* the retry timer callback: setReconnectAttempts(prev => prev + 1); connect()
\* where connect is the closure that created the timer
TimerFire(t) ==
    /\ UNCHANGED roomVars
    /\ UNCHANGED chatVars
    /\ reconnectAttempts < MaxCount
    /\ ConnectEnabled(socketRef, sockets)
    /\ timeoutRef' = IF t.at = "ref" THEN DoneTimer ELSE timeoutRef
    /\ timers' = IF t.at = "ref" THEN timers ELSE timers (-) Single(t.ra)
    /\ reconnectAttempts' = reconnectAttempts + 1
    /\ LET c == ConnectCall(t.ra, socketRef, sockets)
       IN  /\ socketRef' = c.ref
           /\ sockets' = c.socks
           /\ Hist("timer", 0, c.opened, failuresOnly, srvClosed, owed)
    /\ UNCHANGED <<mounted, token, connected, error, connectRA, depConnected,
                   calls>>

\* connect() called by a user of the hook: the closure of the last render
Connect ==
    /\ UNCHANGED roomVars
    /\ UNCHANGED chatVars
    /\ mounted
    /\ calls < MaxCalls
    /\ calls' = calls + 1
    /\ ConnectEnabled(socketRef, sockets)
    /\ LET c == ConnectCall(connectRA, socketRef, sockets)
       IN  /\ socketRef' = c.ref
           /\ sockets' = c.socks
           /\ Hist("connect()", 0, c.opened, FALSE, FALSE, owed)
    /\ UNCHANGED <<mounted, token, connected, error, reconnectAttempts,
                   connectRA, depConnected, timeoutRef, timers>>

\* disconnect() called by a user of the hook
Disconnect ==
    /\ UNCHANGED roomVars
    /\ UNCHANGED chatVars
    /\ mounted
    /\ calls < MaxCalls
    /\ calls' = calls + 1
    /\ DisconnectCallEnabled(socketRef, timeoutRef, timers)
    /\ LET d == DisconnectCall(socketRef, sockets, timeoutRef, timers)
       IN  /\ socketRef' = d.ref
           /\ sockets' = d.socks
           /\ timeoutRef' = d.tref
           /\ timers' = d.tm
           /\ Hist("disconnect()", d.delay, FALSE, FALSE, FALSE, FALSE)
    /\ connected' = DisconnectedState.connected
    /\ error' = DisconnectedState.error
    /\ reconnectAttempts' = DisconnectedState.attempts
    /\ UNCHANGED <<mounted, token, connectRA, depConnected>>

\* A render after a state change, followed by the credential effect when
\* one of its dependencies (connect, i.e. reconnectAttempts; connected)
\* changed:
\*   if (token && !connected && !socketRef.current) connect();
\*   else if (!token && socketRef.current) disconnect();
Render ==
    /\ UNCHANGED roomVars
    /\ UNCHANGED chatVars
    /\ mounted
    /\ ~RenderIdle
    /\ connectRA' = reconnectAttempts
    /\ depConnected' = connected
    /\ IF token /\ ~connected /\ socketRef.status = "none"
       THEN /\ ConnectEnabled(socketRef, sockets)
            /\ LET c == ConnectCall(reconnectAttempts, socketRef, sockets)
               IN  /\ socketRef' = c.ref
                   /\ sockets' = c.socks
                   /\ Hist("render", 0, c.opened, failuresOnly, srvClosed, owed)
            /\ UNCHANGED <<connected, error, reconnectAttempts, timeoutRef, timers>>
       ELSE IF ~token /\ socketRef.status # "none"
       THEN /\ DisconnectCallEnabled(socketRef, timeoutRef, timers)
            /\ LET d == DisconnectCall(socketRef, sockets, timeoutRef, timers)
               IN  /\ socketRef' = d.ref
                   /\ sockets' = d.socks
                   /\ timeoutRef' = d.tref
                   /\ timers' = d.tm
                   /\ Hist("render", d.delay, FALSE, failuresOnly, srvClosed, owed)
            /\ connected' = DisconnectedState.connected
            /\ error' = DisconnectedState.error
            /\ reconnectAttempts' = DisconnectedState.attempts
       ELSE /\ Hist("render", 0, FALSE, failuresOnly, srvClosed, owed)
            /\ UNCHANGED <<connected, error, reconnectAttempts, socketRef,
                           sockets, timeoutRef, timers>>
    /\ UNCHANGED <<mounted, token, calls>>

\* the Auth collaborator stores a credential (setToken)
SetToken ==
    /\ UNCHANGED roomVars
    /\ UNCHANGED chatVars
    /\ ~token
    /\ calls < MaxCalls
    /\ calls' = calls + 1
    /\ token' = TRUE
    /\ Hist("setToken", 0, FALSE, FALSE, FALSE, mounted /\ Disconnected)
    /\ UNCHANGED <<mounted, connected, error, reconnectAttempts, connectRA,
                   depConnected, socketRef, sockets, timeoutRef, timers>>

\* the Auth collaborator removes the credential (removeToken)
ClearToken ==
    /\ UNCHANGED roomVars
    /\ UNCHANGED chatVars
    /\ token
    /\ calls < MaxCalls
    /\ calls' = calls + 1
    /\ token' = FALSE
    /\ Hist("clearToken", 0, FALSE, FALSE, FALSE, FALSE)
    /\ UNCHANGED <<mounted, connected, error, reconnectAttempts, connectRA,
                   depConnected, socketRef, sockets, timeoutRef, timers>>

\* emit(event, data) called by a user of the hook: the closure of the last
\* render, whose `connected` is depConnected
Emit ==
    /\ mounted
    /\ calls < MaxCalls
    /\ calls' = calls + 1
    /\ last' = EmitOp("emit", EmitCall(socketRef, depConnected), "none")
    /\ UNCHANGED <<mounted, token, connected, error, reconnectAttempts,
                   connectRA, depConnected, socketRef, sockets, timeoutRef,
                   timers, failuresOnly, srvClosed, owed>>
    /\ UNCHANGED roomVars
    /\ UNCHANGED chatVars

\* joinRoom(roomId): return emit('join-room', { roomId })
JoinRoom(r) ==
    /\ UNCHANGED chatVars
    /\ mounted
    /\ calls < MaxCalls
    /\ calls' = calls + 1
    /\ LET e == EmitCall(socketRef, depConnected)
       IN  /\ last' = EmitOp("join", e, r)
           /\ joinSent' = IF e.wire THEN joinSent \cup {r} ELSE joinSent
           /\ subscribed' = IF e.wire THEN subscribed \cup {r} ELSE subscribed
    /\ deferred' = IF connected THEN deferred \ {r} ELSE deferred \cup {r}
    /\ UNCHANGED <<mounted, token, connected, error, reconnectAttempts,
                   connectRA, depConnected, socketRef, sockets, timeoutRef,
                   timers, failuresOnly, srvClosed, owed>>

\* leaveRoom(roomId): return emit('leave-room', { roomId })
LeaveRoom(r) ==
    /\ UNCHANGED chatVars
    /\ mounted
    /\ calls < MaxCalls
    /\ calls' = calls + 1
    /\ last' = EmitOp("leave", EmitCall(socketRef, depConnected), r)
    /\ subscribed' = subscribed \ {r}
    /\ deferred' = deferred \ {r}
    /\ UNCHANGED <<mounted, token, connected, error, reconnectAttempts,
                   connectRA, depConnected, socketRef, sockets, timeoutRef,
                   timers, failuresOnly, srvClosed, owed, joinSent>>

\* Cleanup of the mount effect, on unmount:
\*   if (reconnectTimeoutRef.current) clearTimeout(reconnectTimeoutRef.current);
\*   if (socketRef.current) socketRef.current.disconnect();
\* socket.disconnect() on a connected socket runs that socket's disconnect
\* handler with reason "io client disconnect"; on a socket still opening it
\* closes the socket without an event.  socketRef.current is not reset.
UnmountCleanup(ref, socks, tref, tm) ==
    LET t1 == ClearTimeout(tref)
    IN  IF ref.status = "open"
        THEN LET c == CloseSocket([at |-> "ref", sock |-> ref], ref, socks)
                 h == DisconnectHandler(ref.ra, ClientDisconnect,
                                        c.ref, c.socks, t1, tm)
             IN  [ref |-> h.ref, socks |-> h.socks,
                  tref |-> h.tref, tm |-> h.tm, delay |-> h.delay]
        ELSE [ref |-> IF ref.status = "opening" THEN ClosedSocket ELSE ref,
              socks |-> socks, tref |-> t1, tm |-> tm, delay |-> 0]

\* The component using the hook is unmounted.  State setters called from
\* now on have no effect on what is rendered; refs, sockets and timers live
\* on.
Unmount ==
    /\ mounted
    /\ mounted' = FALSE
    /\ unmounted' = TRUE
    /\ DisconnectCallEnabled(socketRef, timeoutRef, timers)
    /\ LET u == UnmountCleanup(socketRef, sockets, timeoutRef, timers)
       IN  /\ socketRef' = u.ref
           /\ sockets' = u.socks
           /\ timeoutRef' = u.tref
           /\ timers' = u.tm
           /\ Hist("unmount", u.delay, FALSE, failuresOnly, srvClosed, owed)
    /\ UNCHANGED <<token, connected, error, reconnectAttempts, connectRA,
                   depConnected, calls>>
    /\ UNCHANGED roomVars
    /\ UNCHANGED <<storeVars, gateVars, chatSocket, chatConnected, chatLast,
                   viewerVars, parentMessages>>

Next ==
    \/ Mount
    \/ \E s \in Targets : OnConnect(s)
    \/ \E s \in Targets : OnConnectError(s)
    \/ \E s \in Targets : \E reason \in {ServerDisconnect, TransportClose} :
          OnDisconnect(s, reason)
    \/ \E s \in Targets : OnAuthError(s)
    \/ \E s \in Targets : OnRateLimit(s)
    \/ \E t \in PendingTimers : TimerFire(t)
    \/ Connect
    \/ Disconnect
    \/ Render
    \/ SetToken
    \/ ClearToken

Spec == Init /\ [][Next]_vars

\* The hook with a fixed credential, used through connect, disconnect, emit,
\* joinRoom and leaveRoom.
NextSession ==
    \/ Mount
    \/ \E s \in Targets : OnConnect(s)
    \/ \E s \in Targets : OnConnectError(s)
    \/ \E s \in Targets : \E reason \in {ServerDisconnect, TransportClose} :
          OnDisconnect(s, reason)
    \/ \E t \in PendingTimers : TimerFire(t)
    \/ Connect
    \/ Disconnect
    \/ Render
    \/ Emit
    \/ \E r \in Rooms : JoinRoom(r)
    \/ \E r \in Rooms : LeaveRoom(r)

SpecSession == Init /\ [][NextSession]_vars

\* The hook from mount to unmount and after, driven by the socket events and
\* the retry timers.
NextTeardown ==
    \/ Mount
    \/ \E s \in Targets : OnConnect(s)
    \/ \E s \in Targets : OnConnectError(s)
    \/ \E s \in Targets : \E reason \in {ServerDisconnect, TransportClose} :
          OnDisconnect(s, reason)
    \/ \E t \in PendingTimers : TimerFire(t)
    \/ Render
    \/ Unmount

SpecTeardown == Init /\ [][NextTeardown]_vars


\* ------------------------------------------------- ChatContainer actions

\* message ids named by delete requests and delete events
MessageIds == 1..MaxArrivals

IdMsg(id) == [id |-> id, userId |-> "none", ts |-> 0]

WithoutId_DropOlder(msgs, messageId) ==
    SelectSeq(msgs, LAMBDA m : m.id > messageId)

\* prev.filter(msg => msg.id !== messageId)
WithoutId(msgs, messageId) == SelectSeq(msgs, LAMBDA m : m.id # messageId)

WithoutUser_KeepsLast(msgs, userId) ==
    SelectSeq(msgs, LAMBDA m : m.userId # userId \/ m = msgs[Len(msgs)])

\* prev.filter(msg => msg.userId !== data.userId)
WithoutUser(msgs, userId) == SelectSeq(msgs, LAMBDA m : m.userId # userId)

\* ids of the messages a step took out of the list
RemovedIds(before, after) ==
    {before[i].id : i \in 1..Len(before)} \ {after[i].id : i \in 1..Len(after)}

\* handleNewMessage -> addMessage, registered while socket && connected.
\* The message gets its arrival number as id.  The addMessage called is the
\* one the effect registered, with the isAtBottom of that render.
HandleNewMessage(u, ts) ==
    /\ chatSocket /\ chatConnected
    /\ arrivals < MaxArrivals
    /\ arrivals' = arrivals + 1
    /\ LET newMessage == [id |-> arrivals + 1, userId |-> u, ts |-> ts]
       IN  /\ chatMessages' = AddMessageUpdate(chatMessages, newMessage,
                                               blockedUsers)
           /\ chatLast' = ChatOp("message", newMessage, u, FALSE, NoPayload)
    /\ unreadCount' = IF ~addIsAtBottom THEN unreadCount + 1 ELSE unreadCount
    /\ UNCHANGED <<blockedUsers, isAtBottom, addIsAtBottom, chatSocket,
                   chatConnected>>
    /\ UNCHANGED removed
    /\ UNCHANGED gateVars
    /\ UNCHANGED hookVars

\* toggleBlockUser(userId), from the block button of a message: the filter
\* reads the blockedUsers of the render that created the callback, i.e. the
\* set before this toggle
ToggleBlockUser(u) ==
    /\ blockedUsers' = ToggleSet(blockedUsers, u)
    /\ chatMessages' = WithoutUsers(chatMessages, blockedUsers)
    /\ chatLast' = ChatOp("toggle", NoMsg, u, FALSE, NoPayload)
    /\ UNCHANGED <<isAtBottom, unreadCount, arrivals, addIsAtBottom,
                   chatSocket, chatConnected>>
    /\ removed' = removed \cup RemovedIds(chatMessages, chatMessages')
    /\ UNCHANGED gateVars
    /\ UNCHANGED hookVars

\* deleteMessage(messageId), from the delete button of a message
DeleteMessage(messageId) ==
    /\ IF ~chatSocket \/ ~chatConnected
       THEN /\ chatLast' = ChatOp("delete", IdMsg(messageId), "none", FALSE,
                                  NoPayload)
            /\ UNCHANGED chatMessages
       ELSE /\ chatLast' = ChatOp("delete", IdMsg(messageId), "none", TRUE,
                                  NoPayload)
            /\ chatMessages' = WithoutId(chatMessages, messageId)
    /\ UNCHANGED <<blockedUsers, isAtBottom, unreadCount, arrivals,
                   addIsAtBottom, chatSocket, chatConnected>>
    /\ removed' = removed \cup RemovedIds(chatMessages, chatMessages')
    /\ UNCHANGED gateVars
    /\ UNCHANGED hookVars

\* handleMessageDeleted(data), registered while socket && connected
HandleMessageDeleted(messageId) ==
    /\ chatSocket /\ chatConnected
    /\ chatMessages' = WithoutId(chatMessages, messageId)
    /\ chatLast' = ChatOp("message-deleted", IdMsg(messageId), "none", TRUE,
                          NoPayload)
    /\ UNCHANGED <<blockedUsers, isAtBottom, unreadCount, arrivals,
                   addIsAtBottom, chatSocket, chatConnected>>
    /\ removed' = removed \cup RemovedIds(chatMessages, chatMessages')
    /\ UNCHANGED gateVars
    /\ UNCHANGED hookVars

\* handleUserBanned(data), registered while socket && connected
HandleUserBanned(u) ==
    /\ chatSocket /\ chatConnected
    /\ chatMessages' = WithoutUser(chatMessages, u)
    /\ chatLast' = ChatOp("user-banned", NoMsg, u, TRUE, NoPayload)
    /\ UNCHANGED <<blockedUsers, isAtBottom, unreadCount, arrivals,
                   addIsAtBottom, chatSocket, chatConnected>>
    /\ removed' = removed \cup RemovedIds(chatMessages, chatMessages')
    /\ UNCHANGED gateVars
    /\ UNCHANGED hookVars

\* handleScroll: atBottom is whether the scroll position is within the
\* threshold of the bottom.  A scroll event is not rendered synchronously:
\* the socket handler keeps the addMessage of the previous render until
\* ChatRender.
HandleScroll(atBottom) ==
    /\ isAtBottom' = atBottom
    /\ unreadCount' = IF atBottom THEN 0 ELSE unreadCount
    /\ chatLast' = ChatOp("scroll", NoMsg, "none", atBottom, NoPayload)
    /\ UNCHANGED <<chatMessages, blockedUsers, arrivals, addIsAtBottom,
                   chatSocket, chatConnected>>
    /\ UNCHANGED removed
    /\ UNCHANGED gateVars
    /\ UNCHANGED hookVars

\* jumpToBottom, from the jump button (rendered only while !isAtBottom)
JumpToBottom ==
    /\ ~isAtBottom
    /\ isAtBottom' = TRUE
    /\ addIsAtBottom' = TRUE
    /\ unreadCount' = 0
    /\ chatLast' = ChatOp("jump", NoMsg, "none", FALSE, NoPayload)
    /\ UNCHANGED <<chatMessages, blockedUsers, arrivals, chatSocket,
                   chatConnected>>
    /\ UNCHANGED removed
    /\ UNCHANGED gateVars
    /\ UNCHANGED hookVars

\* the render after a scroll event or a socket event changed the state, and
\* its effects: addMessage and the socket handlers are created again
ChatRender ==
    /\ addIsAtBottom # isAtBottom \/ toggleCanSend # canSendMessage
    /\ addIsAtBottom' = isAtBottom
    /\ toggleCanSend' = canSendMessage
    /\ chatLast' = ChatOp("render", NoMsg, "none", FALSE, NoPayload)
    /\ UNCHANGED <<chatMessages, blockedUsers, isAtBottom, unreadCount,
                   arrivals, slowModeTimer, canSendMessage, slowModeInterval,
                   isSlowMode, disabled, authUser, chatSocket, chatConnected>>
    /\ UNCHANGED removed
    /\ UNCHANGED hookVars

\* a render in which the ChatContainer's useSocket() returns other values of
\* socket and connected; the effect registers or removes the chat handlers,
\* with the callbacks of this render
UseSocketChange(sock, conn) ==
    /\ <<sock, conn>> # <<chatSocket, chatConnected>>
    /\ chatSocket' = sock
    /\ chatConnected' = conn
    /\ addIsAtBottom' = isAtBottom
    /\ toggleCanSend' = canSendMessage
    /\ chatLast' = ChatOp("useSocket", NoMsg, "none", FALSE, NoPayload)
    /\ UNCHANGED <<chatMessages, blockedUsers, isAtBottom, unreadCount,
                   arrivals, slowModeTimer, canSendMessage, slowModeInterval,
                   isSlowMode, disabled, authUser>>
    /\ UNCHANGED removed
    /\ UNCHANGED hookVars

\* sendMessage(content, type), from the chat input
SendMessage(content, type) ==
    /\ IF \/ SendRejected(chatSocket, chatConnected, user, canSendMessage,
                          disabled)
          \/ Trim(content) = <<>>
       THEN /\ chatLast' = SendOp(content, FALSE, NoPayload)
            /\ UNCHANGED <<canSendMessage, slowModeTimer, slowModeInterval,
                           toggleCanSend>>
       ELSE /\ chatLast' = SendOp(content, TRUE,
                                  [content |-> Trim(content), type |-> type])
            /\ IF isSlowMode
               THEN /\ canSendMessage' = FALSE
                    /\ toggleCanSend' = FALSE
                    /\ slowModeTimer' = slowModeCooldown
                    /\ slowModeInterval' = TRUE
               ELSE UNCHANGED <<canSendMessage, slowModeTimer,
                                slowModeInterval, toggleCanSend>>
    /\ UNCHANGED <<isSlowMode, disabled, authUser, chatSocket, chatConnected>>
    /\ UNCHANGED storeVars
    /\ UNCHANGED hookVars

\* handleSlowModeToggle(data), registered while socket && connected, with
\* the canSendMessage of the render that registered it
HandleSlowModeToggle(enabled, duration) ==
    /\ chatSocket /\ chatConnected
    /\ IF enabled /\ toggleCanSend
       THEN /\ canSendMessage' = FALSE
            /\ slowModeTimer' = IF duration = 0 THEN defaultSlowModeDuration
                                ELSE duration
       ELSE UNCHANGED <<canSendMessage, slowModeTimer>>
    /\ chatLast' = [ChatOp("slow-mode-toggle", NoMsg, "none", enabled, NoPayload)
                       EXCEPT !.msg = IdMsg(duration)]
    /\ UNCHANGED <<slowModeInterval, isSlowMode, disabled, toggleCanSend,
                   authUser, chatSocket, chatConnected>>
    /\ UNCHANGED storeVars
    /\ UNCHANGED hookVars

\* one run of the interval callback sendMessage starts:
\*   setSlowModeTimer(prev => { if (prev <= 1) { setCanSendMessage(true);
\*     clearInterval(slowModeIntervalRef.current); return 0; } return prev - 1; })
\* No reachable state enables it: sendMessage never passes its guard while
\* user is undefined, so the interval is never started.
SlowModeTick ==
    /\ slowModeInterval
    /\ slowModeTimer' = IF slowModeTimer <= 1 THEN 0 ELSE slowModeTimer - 1
    /\ canSendMessage' = IF slowModeTimer <= 1 THEN TRUE ELSE canSendMessage
    /\ slowModeInterval' = ~(slowModeTimer <= 1)
    /\ chatLast' = ChatOp("tick", NoMsg, "none", FALSE, NoPayload)
    /\ UNCHANGED <<isSlowMode, disabled, toggleCanSend, authUser, chatSocket,
                   chatConnected>>
    /\ UNCHANGED storeVars
    /\ UNCHANGED hookVars

\* StreamView, handleChatMessage: setChatMessages(prev => [...prev, message]),
\* and the ChatContainer effect that follows the changed `messages` prop:
\* setChatMessages(messages)
ParentChatMessage(u, ts) ==
    /\ arrivals < MaxArrivals
    /\ arrivals' = arrivals + 1
    /\ LET message == [id |-> arrivals + 1, userId |-> u, ts |-> ts]
       IN  /\ parentMessages' = Append(parentMessages, message)
           /\ chatLast' = ChatOp("seed", message, u, FALSE, NoPayload)
    /\ chatMessages' = parentMessages'
    /\ UNCHANGED <<blockedUsers, isAtBottom, unreadCount, addIsAtBottom,
                   removed, chatSocket, chatConnected>>
    /\ UNCHANGED gateVars
    /\ UNCHANGED <<socketVars, viewerVars, unmounted>>

\* the hook variables while only a ChatContainer is looked at
HookIdle ==
    /\ token = FALSE
    /\ mounted = FALSE
    /\ connected = FALSE
    /\ error = NoError
    /\ reconnectAttempts = 0
    /\ connectRA = 0
    /\ depConnected = FALSE
    /\ socketRef = NoSocket
    /\ sockets = EmptyBag
    /\ timeoutRef = NoTimer
    /\ timers = EmptyBag
    /\ last = Op("init", 0, FALSE)
    /\ failuresOnly = TRUE
    /\ srvClosed = FALSE
    /\ owed = FALSE
    /\ calls = 0
    /\ subscribed = {}
    /\ joinSent = {}
    /\ deferred = {}
    /\ OuterInit

\* the message list, block list and scroll state of a ChatContainer
InitChat ==
    /\ HookIdle
    /\ ChatInit(FALSE, FALSE)
    /\ authUser = FALSE

NextChat ==
    \/ \E u \in Users : \E ts \in Timestamps : HandleNewMessage(u, ts)
    \/ \E u \in Users : ToggleBlockUser(u)
    \/ \E id \in MessageIds : DeleteMessage(id)
    \/ \E id \in MessageIds : HandleMessageDeleted(id)
    \/ \E u \in Users : HandleUserBanned(u)
    \/ \E atBottom \in BOOLEAN : HandleScroll(atBottom)
    \/ JumpToBottom
    \/ ChatRender
    \/ \E sock \in BOOLEAN : \E conn \in BOOLEAN : UseSocketChange(sock, conn)

SpecChat == InitChat /\ [][NextChat]_vars

\* the message list of a ChatContainer under the page that renders it: the
\* operations that add and remove messages, and the page's messages prop
NextSeed ==
    \/ \E u \in Users : \E ts \in Timestamps : ParentChatMessage(u, ts)
    \/ \E u \in Users : \E ts \in Timestamps : HandleNewMessage(u, ts)
    \/ \E u \in Users : ToggleBlockUser(u)
    \/ \E id \in MessageIds : HandleMessageDeleted(id)
    \/ \E u \in Users : HandleUserBanned(u)
    \/ \E sock \in BOOLEAN : \E conn \in BOOLEAN : UseSocketChange(sock, conn)

SpecSeed == InitChat /\ [][NextSeed]_vars

\* the slow-mode gate and sendMessage of a ChatContainer, for every value of
\* its props and with or without a logged-in user
InitGate ==
    /\ HookIdle
    /\ \E slow \in BOOLEAN, dis \in BOOLEAN : ChatInit(slow, dis)
    /\ authUser \in BOOLEAN

NextGate ==
    \/ \E content \in Contents : \E type \in Types : SendMessage(content, type)
    \/ \E enabled \in BOOLEAN : \E duration \in Durations :
          HandleSlowModeToggle(enabled, duration)
    \/ ChatRender
    \/ \E sock \in BOOLEAN : \E conn \in BOOLEAN : UseSocketChange(sock, conn)

SpecGate == InitGate /\ [][NextGate]_vars

\* ------------------------------------------------- viewer count actions

\* what a viewer-count action leaves alone
notViewerVars == <<socketVars, storeVars, gateVars, chatSocket, chatConnected,
                   chatLast, unmounted, parentMessages>>

\* StreamView, fetchStreamData: setViewCount(response.data.viewCount || 0)
FetchStreamData(n) ==
    /\ viewCount' = n
    /\ expected' = n
    /\ viewLast' = ViewOp("fetch", Watched, n)
    /\ UNCHANGED <<viewerCount, liveStreams, netDelta, viewerEvents>>
    /\ UNCHANGED notViewerVars

\* StreamView, handleViewerJoined
ViewerJoined ==
    /\ viewerEvents < MaxDeltas
    /\ viewerEvents' = viewerEvents + 1
    /\ viewCount' = ViewerJoinedUpdate(viewCount)
    /\ expected' = expected + 1
    /\ netDelta' = netDelta + 1
    /\ viewLast' = ViewOp("viewer:joined", Watched, 0)
    /\ UNCHANGED <<viewerCount, liveStreams>>
    /\ UNCHANGED notViewerVars

\* StreamView, handleViewerLeft
ViewerLeft ==
    /\ viewerEvents < MaxDeltas
    /\ viewerEvents' = viewerEvents + 1
    /\ viewCount' = ViewerLeftUpdate(viewCount)
    /\ expected' = Max(0, expected - 1)
    /\ netDelta' = netDelta - 1
    /\ viewLast' = ViewOp("viewer:left", Watched, 0)
    /\ UNCHANGED <<viewerCount, liveStreams>>
    /\ UNCHANGED notViewerVars

\* Broadcast, handleViewerJoined
BroadcastViewerJoined ==
    /\ viewerEvents < MaxDeltas
    /\ viewerEvents' = viewerEvents + 1
    /\ viewerCount' = ViewerJoinedUpdate(viewerCount)
    /\ viewLast' = ViewOp("broadcast viewer:joined", "none", 0)
    /\ UNCHANGED <<viewCount, liveStreams, expected, netDelta>>
    /\ UNCHANGED notViewerVars

\* Broadcast, handleViewerLeft
BroadcastViewerLeft ==
    /\ viewerEvents < MaxDeltas
    /\ viewerEvents' = viewerEvents + 1
    /\ viewerCount' = ViewerLeftUpdate(viewerCount)
    /\ viewLast' = ViewOp("broadcast viewer:left", "none", 0)
    /\ UNCHANGED <<viewCount, liveStreams, expected, netDelta>>
    /\ UNCHANGED notViewerVars

\* StreamingProvider, 'viewer-count-update': dispatch UPDATE_STREAM
ViewerCountUpdate(id, n) ==
    /\ liveStreams' = UpdateStream(liveStreams, id, n)
    /\ expected' = IF id = Watched THEN n ELSE expected
    /\ viewLast' = ViewOp("viewer-count-update", id, n)
    /\ UNCHANGED <<viewCount, viewerCount, netDelta, viewerEvents>>
    /\ UNCHANGED notViewerVars

\* StreamingProvider, 'stream-started': dispatch ADD_STREAM
StreamStarted(id, n) ==
    /\ Len(liveStreams) < MaxStreams
    /\ liveStreams' = AddStream(liveStreams, id, n)
    /\ viewLast' = ViewOp("stream-started", id, n)
    /\ UNCHANGED <<viewCount, viewerCount, expected, netDelta, viewerEvents>>
    /\ UNCHANGED notViewerVars

\* StreamingProvider, 'stream-ended': dispatch REMOVE_STREAM
StreamEnded(id) ==
    /\ liveStreams' = RemoveStream(liveStreams, id)
    /\ viewLast' = ViewOp("stream-ended", id, 0)
    /\ UNCHANGED <<viewCount, viewerCount, expected, netDelta, viewerEvents>>
    /\ UNCHANGED notViewerVars

\* the viewer counts of StreamView, Broadcast and the StreamingProvider
InitViewers ==
    /\ HookIdle
    /\ ChatInit(FALSE, FALSE)
    /\ authUser = FALSE

NextViewers ==
    \/ \E n \in Counts : FetchStreamData(n)
    \/ ViewerJoined
    \/ ViewerLeft
    \/ BroadcastViewerJoined
    \/ BroadcastViewerLeft
    \/ \E id \in Rooms : \E n \in Counts : ViewerCountUpdate(id, n)
    \/ \E id \in Rooms : \E n \in Counts : StreamStarted(id, n)
    \/ \E id \in Rooms : StreamEnded(id)

SpecViewers == InitViewers /\ [][NextViewers]_vars

\* ------------------------------------------------------------------ claims

RetryDelays == <<1000, 2000, 4000, 8000, 16000>>

\* C1: while every transport open is answered by connect_error, the retry
\* scheduled at attempt k (k = 0..4) has delay RetryDelays[k+1], no retry is
\* scheduled at attempt 5 or later, and once attempt 5 is reached the manager
\* is Failed (not connected, nothing pending).
C1_BackoffSchedule ==
    failuresOnly =>
        /\ last.delay # 0 =>
              /\ reconnectAttempts < maxReconnectAttempts
              /\ last.delay = RetryDelays[reconnectAttempts + 1]
        /\ reconnectAttempts >= maxReconnectAttempts =>
              ~connected /\ NoPendingTimer

\* C2: the attempt counter never exceeds maxReconnectAttempts.
C2_AttemptBounded == reconnectAttempts <= maxReconnectAttempts

\* C3: right after the transport reports a successful connect the manager is
\* Connected, attempt is 0 and lastError is cleared.
C3_ConnectResets ==
    last.op = "connect" =>
        connected /\ reconnectAttempts = 0 /\ error = NoError

\* a connect processed while the rendered closures still hold attempt > 0
\* and connected = false
C3_Witness ==
    /\ last.op = "connect"
    /\ connectRA > 0
    /\ ~depConnected
    /\ connected

\* C4: the step that handles a server-initiated disconnect schedules no retry
\* timer: the pending timers and the stored timer handle are unchanged.
C4_ServerDisconnectNoTimer ==
    [][last'.op = "disconnect_server" =>
          (timers' = timers /\ timeoutRef' = timeoutRef)]_vars

\* a server-initiated disconnect handled by a socket whose closure would
\* have retried after a network drop
C4_Witness ==
    /\ last.op = "disconnect_server"
    /\ socketRef = NoSocket
    /\ ~connected
    /\ reconnectAttempts < maxReconnectAttempts
    /\ TimerCount(timeoutRef, timers) < MaxTimers

\* C5: after a server-initiated disconnect no transport is opened until an
\* explicit connect() call.
C5_NoReopenAfterServerClose == srvClosed => ~last.opened

\* C6: right after an auth_error the manager is Disconnected with the
\* authentication error surfaced, the handler has scheduled no retry and no
\* retry timer is pending.
C6_AuthErrorNoRetry ==
    last.op = "auth_error" =>
        /\ ~connected
        /\ error = AuthFailed
        /\ last.delay = 0
        /\ NoPendingTimer

\* C7: right after disconnect() the manager is Disconnected with attempt 0,
\* no retry timer is pending and no transport is open or opening.
C7_DisconnectQuiesces ==
    last.op = "disconnect()" =>
        /\ ~connected
        /\ reconnectAttempts = 0
        /\ NoPendingTimer
        /\ NoLiveSocket

\* C8: once the credential is absent and every render has been processed,
\* the manager is not Connected.
C8_ClearedCredentialDisconnects ==
    (mounted /\ ~token /\ RenderIdle) => ~connected

\* C9: the credential binding converges: when no render and no timer is
\* pending, an absent credential means the manager is not Connected, and no
\* connection is still owed to a credential that became present while the
\* manager was Disconnected.
C9_LevelTriggered ==
    (mounted /\ RenderIdle /\ NoPendingTimer) =>
        /\ ~token => ~connected
        /\ ~owed

\* C10: no step opens a transport while the stored credential is absent.
C10_NoOpenWithoutCredential == last.opened => token

\* isReconnecting is false although attempts were made: the attempt counter
\* has reached maxReconnectAttempts and nothing is connected or connecting
Failed ==
    /\ ~connected
    /\ reconnectAttempts >= maxReconnectAttempts
    /\ NoLiveSocket

\* C11: a disconnect caused by a network drop applies the backoff policy of
\* the current attempt counter: with attempt = k below the maximum it
\* schedules one retry after 1000 * 2^k ms, and with attempt at or above the
\* maximum it schedules nothing.
C11_NetworkDropBackoff ==
    last.op = "disconnect_network" =>
        IF reconnectAttempts < maxReconnectAttempts
        THEN last.delay = reconnectDelay * Pow2(reconnectAttempts)
        ELSE last.delay = 0

\* C12: in every Failed state the last error is set and no retry timer is
\* pending.
C12_FailedIsQuiescent == Failed => (error # NoError /\ NoPendingTimer)

\* C13: emit returns failure and sends nothing whenever the connection is
\* not Connected; when it is Connected (and that state has been rendered),
\* emit forwards the packet to the transport and returns success.
C13_EmitFollowsState ==
    last.op = "emit" =>
        /\ ~connected => (~last.ok /\ ~last.wire)
        /\ (connected /\ depConnected) => (last.ok /\ last.wire)

\* C14: a joinRoom called while the connection is not Connected is deferred:
\* once the connection has become Connected, the join request for that room
\* has been emitted.
C14_DeferredJoinSent ==
    (connected /\ RenderIdle) => deferred \subseteq joinSent

\* C15: after every transition into Connected, a reconnect included, a join
\* request has been emitted for every room joined and not left since
\* (stated for the states in which the connected socket is the only one).
C15_RejoinOnConnect ==
    (connected /\ RenderIdle /\ sockets = EmptyBag)
        => subscribed \subseteq joinSent

\* C16: leaveRoom of a joined room emits the leave request at once when the
\* connection is Connected, and a join request for a room goes out only in a
\* joinRoom call for that room, never on a later transition into Connected.
C16_LeaveEmitsNoRejoin ==
    [][/\ (last'.op = "leave" /\ connected /\ last'.room \in subscribed)
            => last'.wire
       /\ \A r \in joinSent' \ joinSent :
            last'.op = "join" /\ last'.room = r]_vars

\* C17: an ingest of a message from an unblocked user leaves the visible
\* sequence holding the most recently arrived messages, at most maxMessages
\* of them, in arrival order: the oldest arrival is evicted first, whatever
\* the timestamps say.
C17_KeepsMostRecent ==
    [][(chatLast'.op = "message" /\ chatLast'.msg.userId \notin blockedUsers)
        => LET all  == Append(chatMessages, chatLast'.msg)
               keep == IF Len(all) < maxMessages THEN Len(all) ELSE maxMessages
           IN  /\ Len(chatMessages') = keep
               /\ \A i \in 1..keep :
                     chatMessages'[i] = all[Len(all) - keep + i]]_vars

\* maxMessages + 1 messages from unblocked users have been ingested, the
\* first arrival is gone, the others are kept in arrival order, and the
\* timestamps of the kept messages are not in arrival order
C17_Witness ==
    /\ chatLast.op = "message"
    /\ blockedUsers = {}
    /\ arrivals = maxMessages + 1
    /\ Len(chatMessages) = maxMessages
    /\ \A i \in 1..maxMessages : chatMessages[i].id = i + 1
    /\ chatMessages[1].ts > chatMessages[maxMessages].ts

\* C18: blocking a user removes at once every visible message of that user
\* and keeps the others in their order.
C18_BlockRemovesMessages ==
    [][(chatLast'.op = "toggle" /\ chatLast'.user \notin blockedUsers)
        => chatMessages' = WithoutUsers(chatMessages, {chatLast'.user})]_vars

\* C19: while a user is in the block list, an ingest of a message from that
\* user leaves the visible sequence unchanged.
C19_BlockedIngestDropped ==
    [][(chatLast'.op = "message" /\ chatLast'.msg.userId \in blockedUsers)
        => chatMessages' = chatMessages]_vars

\* a message from a blocked user has just arrived while messages are visible
C19_Witness ==
    /\ chatLast.op = "message"
    /\ chatLast.msg.userId \in blockedUsers
    /\ chatLast.msg.id = arrivals
    /\ chatMessages # <<>>
    /\ \A i \in 1..Len(chatMessages) : chatMessages[i].id # arrivals

\* C20: sendMessage is rejected, emitting nothing and leaving the slow-mode
\* state as it was, whenever the connection is not Connected, there is no
\* user identity, the slow-mode cooldown is running, or the text is empty
\* after trimming.
C20_SendRejected ==
    [][(/\ chatLast'.op = "send"
        /\ \/ ~chatConnected
           \/ ~user
           \/ slowModeTimer > 0
           \/ chatLast'.blank)
        => /\ ~chatLast'.ok
           /\ chatLast'.emitted = NoPayload
           /\ UNCHANGED <<canSendMessage, slowModeTimer, slowModeInterval>>]_vars

\* a send has just been refused while the cooldown is running on a
\* connected socket, with a text that is not blank
C20_Witness ==
    /\ chatLast.op = "send"
    /\ ~chatLast.ok
    /\ ~chatLast.blank
    /\ chatSocket /\ chatConnected /\ ~disabled
    /\ slowModeTimer > 0

C22_ToggleArmsOrDisarms ==
    [][chatLast'.op = "slow-mode-toggle"
        => /\ chatLast'.ok
              => /\ slowModeTimer' = (IF chatLast'.msg.id = 0
                                      THEN defaultSlowModeDuration
                                      ELSE chatLast'.msg.id)
                 /\ ~canSendMessage'
           /\ ~chatLast'.ok
              => /\ slowModeTimer' = 0
                 /\ canSendMessage']_vars

\* C23: the viewer count of a page never goes below 0, whatever the order of
\* the viewer:joined and viewer:left events and however many more leaves
\* than joins there were.
C23_ViewerCountNonNegative ==
    /\ viewCount >= 0
    /\ viewerCount >= 0

\* a leave handled at count 0, after more leaves than joins
C23_Witness ==
    /\ viewLast.op = "viewer:left"
    /\ netDelta < 0
    /\ viewCount = 0

\* C24: the viewer count shown for the watched stream is the most recent
\* count pushed for it plus the joins and minus the leaves handled since,
\* clamped at 0; right after a viewer-count-update it is the pushed count.
C24_SnapshotOverridesDeltas ==
    viewCount = expected

\* C25: after the component using the hook is unmounted no retry timer is
\* pending, and nothing that fires afterwards opens a transport or changes
\* the sockets and timers.
C25_TeardownCancelsAll ==
    [][/\ unmounted' => NoPendingTimer'
       /\ unmounted => /\ ~last'.opened
                       /\ UNCHANGED <<socketRef, sockets, timeoutRef,
                                      timers>>]_vars

\* C26: an ingestion while the viewport is at the bottom leaves the unread
\* count at 0, an ingestion while it is not at the bottom increments the
\* count by exactly one, and the count returns to 0 only on a scroll that
\* ends within the threshold of the bottom or on jump-to-bottom.
C26_UnreadTracking ==
    [][/\ chatLast'.op = "message"
          => unreadCount' = (IF isAtBottom THEN 0 ELSE unreadCount + 1)
       /\ (unreadCount > 0 /\ unreadCount' = 0)
          => chatLast'.op \in {"scroll", "jump"} /\ isAtBottom']_vars

\* C27: no outbound event (emit, join, leave) is placed on a transport while
\* the connection state is not Connected.
C27_NoEmitUnlessConnected ==
    (last.op \in {"emit", "join", "leave"} /\ last.wire) => connected

\* C28: disconnect() is idempotent: a second call right after a first one,
\* or a call made while already Disconnected, changes neither the
\* connection state, the attempt counter, the sockets nor the timers.
C28_DisconnectIdempotent ==
    [][(/\ last'.op = "disconnect()"
        /\ last.op = "disconnect()" \/ Disconnected)
        => UNCHANGED <<connected, reconnectAttempts, socketRef, sockets,
                       timeoutRef, timers>>]_vars

\* C29: a delete that is applied (a chat:message-deleted event, or
\* deleteMessage while connected) removes the entry with that id if it is
\* present and keeps every other entry in its place; when the id is absent,
\* as after a first delete, the sequence is unchanged.
C29_DeleteRemovesEntry ==
    [][(chatLast'.op \in {"message-deleted", "delete"} /\ chatLast'.ok)
        => LET id  == chatLast'.msg.id
               n   == Len(chatMessages)
               idx == {i \in 1..n : chatMessages[i].id = id}
           IN  /\ idx = {} => chatMessages' = chatMessages
               /\ \A i \in idx :
                     chatMessages' = SubSeq(chatMessages, 1, i - 1)
                                     \o SubSeq(chatMessages, i + 1, n)
               /\ \A j \in 1..Len(chatMessages') :
                     chatMessages'[j].id # id]_vars

\* the older of two visible messages was deleted and the newer one is left
C29_Witness ==
    /\ chatLast.op = "message-deleted"
    /\ chatLast.msg.id = 1
    /\ arrivals = 2
    /\ blockedUsers = {}
    /\ Len(chatMessages) = 1
    /\ chatMessages[1].id = 2

\* C30: a rate_limit signal changes neither the connected state, the attempt
\* counter, the socket held nor any pending retry timer; it only sets the
\* warning message.
C30_RateLimitKeepsState ==
    [][last'.op = "rate_limit"
        => /\ UNCHANGED <<connected, reconnectAttempts, socketRef, sockets,
                          timeoutRef, timers>>
           /\ error' = RateLimited]_vars

\* a rate_limit signal received on the connected socket
C30_Witness ==
    /\ last.op = "rate_limit"
    /\ error = RateLimited
    /\ connected
    /\ socketRef.status = "open"

\* C31: connect() while the manager is Connected is a no-op, also when it is
\* the retry timer that calls it: no transport is opened and the connected
\* state, the attempt counter, the error and the sockets are unchanged.
C31_ConnectNoOpWhenConnected ==
    [][(connected /\ last'.op \in {"connect()", "timer"})
        => /\ ~last'.opened
           /\ UNCHANGED <<connected, reconnectAttempts, error, socketRef,
                          sockets>>]_vars

\* C32: a chat:user-banned event for user u leaves no message of u in the
\* visible sequence and keeps the messages of the other users, all of them
\* and in their order.
C32_BanPurgesUser ==
    [][chatLast'.op = "user-banned"
        => LET u    == chatLast'.user
               n    == Len(chatMessages)
               kept == {i \in 1..n : chatMessages[i].userId # u}
           IN  /\ \A j \in 1..Len(chatMessages') : chatMessages'[j].userId # u
               /\ Len(chatMessages') = Cardinality(kept)
               /\ \A i \in kept :
                     chatMessages'[Cardinality({k \in kept : k <= i})]
                         = chatMessages[i]]_vars

\* the first of two visible messages, from the banned user, was purged and
\* the other user's message is left
C32_Witness ==
    /\ chatLast.op = "user-banned"
    /\ arrivals = 2
    /\ blockedUsers = {}
    /\ Len(chatMessages) = 1
    /\ chatMessages[1].id = 2
    /\ chatMessages[1].userId # chatLast.user

\* C33: at most one transport is open or connecting at any time.
C33_SingleTransport ==
    SocketCount(socketRef, sockets) <= 1

\* C34: at most one reconnect timer is pending at any time, and it is the
\* one reconnectTimeoutRef names, so that one clearTimeout cancels every
\* scheduled retry.
C34_SingleTimer ==
    /\ TimerCount(timeoutRef, timers) <= 1
    /\ timers = EmptyBag

\* C35: whenever the manager is Connected the attempt counter is 0.
C35_ConnectedAttemptZero ==
    connected => reconnectAttempts = 0

\* C36: whenever sends are blocked by the slow-mode gate (canSendMessage
\* false or cooldown above 0) a countdown is running, so that the gate opens
\* again after finitely many ticks.
C36_BlockedGateCountsDown ==
    (~canSendMessage \/ slowModeTimer > 0) => slowModeInterval

\* C38: an ingest that is dropped because its sender is blocked does not
\* increment the unread count.
C38_DroppedIngestNotCounted ==
    [][(chatLast'.op = "message" /\ chatLast'.msg.userId \in blockedUsers)
        => unreadCount' = unreadCount]_vars

\* C39: the live-stream list holds no two entries with the same stream id,
\* and right after stream-ended(id) it holds no entry with that id.
C39_StreamsKeyedById ==
    /\ \A i, j \in 1..Len(liveStreams) :
          i # j => liveStreams[i].id # liveStreams[j].id
    /\ viewLast.op = "stream-ended"
          => \A i \in 1..Len(liveStreams) : liveStreams[i].id # viewLast.stream

\* C37: the visible sequence never holds a message that delete, user-banned
\* or block took out of it, never exceeds maxMessages and never holds a
\* message of a blocked user, also after the page passed a new messages
\* list.
C37_RemovedStaysRemoved ==
    /\ \A i \in 1..Len(chatMessages) : chatMessages[i].id \notin removed
    /\ Len(chatMessages) <= maxMessages
    /\ \A i \in 1..Len(chatMessages) :
          chatMessages[i].userId \notin blockedUsers

====
